---------------------------- MODULE Spec2Model ----------------------------
(***************************************************************************)
(* Model of src/lib.rs: the PalletCallConfig builder, PalletCallConfig::   *)
(* parse and PalletCall::expand, which rewrites a `pallet::Call` enum into *)
(* an enum that is generic over every type bound to the `T: Config` trait. *)
(*                                                                         *)
(* A Rust String is a sequence of one-character strings, so that           *)
(* to_lowercase, to_pascal_case, the identifier and path parsers and the   *)
(* byte-wise String order of the BTreeMap keys are computed, not assumed.  *)
(* An Option is a sequence of length 0 (None) or 1 (Some).                 *)
(***************************************************************************)
EXTENDS Naturals, Sequences, FiniteSets

(***************************************************************************)
(* Bounds of the model.                                                    *)
(***************************************************************************)
\* Variants of an input enum whose field types vary
MaxVariants == 2
\* Fields of an input enum, summed over its variants
MaxFields == 2
\* Attributes of an input enum, summed over declaration, variants and fields
MaxAttrs == 2
\* Attributes pushed with push_attr
MaxExtraAttrs == 2
\* Derives pushed with push_derive / push_derive_str
MaxExtraDerives == 2

(***************************************************************************)
(* Strings                                                                 *)
(***************************************************************************)
\* The printable ASCII characters in code order, from 32 (space) to 126 (~);
\* the double quote, the backslash and the backtick, which no identifier,
\* path or token of the model holds, keep their places under a name
AsciiSeq ==
  <<" ", "!", "(quote)", "#", "$", "%", "&", "'", "(", ")", "*", "+", ",", "-", ".", "/",
    "0", "1", "2", "3", "4", "5", "6", "7", "8", "9", ":", ";", "<", "=", ">", "?", "@",
    "A", "B", "C", "D", "E", "F", "G", "H", "I", "J", "K", "L", "M", "N", "O", "P", "Q",
    "R", "S", "T", "U", "V", "W", "X", "Y", "Z", "[", "(backslash)", "]", "^", "_", "(backtick)",
    "a", "b", "c", "d", "e", "f", "g", "h", "i", "j", "k", "l", "m", "n", "o", "p", "q",
    "r", "s", "t", "u", "v", "w", "x", "y", "z", "{", "|", "}", "~">>

Chars == {AsciiSeq[i] : i \in 1..Len(AsciiSeq)}

\* The byte of a character
Ord == [c \in Chars |-> 31 + (CHOOSE i \in 1..Len(AsciiSeq) : AsciiSeq[i] = c)]

Chr(n) == AsciiSeq[n - 31]

IsUpper(c) == Ord[c] >= 65 /\ Ord[c] <= 90

IsLower(c) == Ord[c] >= 97 /\ Ord[c] <= 122

IsDigit(c) == Ord[c] >= 48 /\ Ord[c] <= 57

IsAlphanumeric(c) == IsUpper(c) \/ IsLower(c) \/ IsDigit(c)

to_ascii_lowercase(c) == IF IsUpper(c) THEN Chr(Ord[c] + 32) ELSE c

to_ascii_uppercase(c) == IF IsLower(c) THEN Chr(Ord[c] - 32) ELSE c

\* str::to_lowercase
to_lowercase(s) == [i \in 1..Len(s) |-> to_ascii_lowercase(s[i])]

\* Ord for String: byte-wise lexicographic, the order of a BTreeMap<String, _>
RECURSIVE StrLess(_, _)
StrLess(a, b) ==
  IF a = <<>> THEN b # <<>>
  ELSE IF b = <<>> THEN FALSE
  ELSE IF Head(a) = Head(b) THEN StrLess(Tail(a), Tail(b))
  ELSE Ord[Head(a)] < Ord[Head(b)]

RECURSIVE Concat(_)
Concat(ss) == IF ss = <<>> THEN <<>> ELSE Head(ss) \o Concat(Tail(ss))

\* The elements of ss with sep between each two of them
RECURSIVE Separated(_, _)
Separated(ss, sep) ==
  IF Len(ss) <= 1 THEN ss
  ELSE <<Head(ss), sep>> \o Separated(Tail(ss), sep)

RECURSIVE TrimLeft(_)
TrimLeft(s) == IF s # <<>> /\ Head(s) = " " THEN TrimLeft(Tail(s)) ELSE s

RECURSIVE TrimRight(_)
TrimRight(s) ==
  IF s # <<>> /\ s[Len(s)] = " " THEN TrimRight(SubSeq(s, 1, Len(s) - 1)) ELSE s

Trim(s) == TrimLeft(TrimRight(s))

\* Inflector's to_pascal_case (to_case_camel_like with new_word = TRUE):
\* leading separators are dropped, a separator starts a new word, the first
\* letter of a word is upper-cased, a digit starts a new word, an upper-case
\* letter after a lower-case one starts a new word, the rest is lower-cased.
RECURSIVE CamelLike(_, _, _, _, _)
CamelLike(s, new_word, last_char, found_real_char, acc) ==
  IF s = <<>> THEN acc
  ELSE LET c == Head(s)
           rest == Tail(s)
       IN IF ~IsAlphanumeric(c) /\ found_real_char
            THEN CamelLike(rest, TRUE, last_char, found_real_char, acc)
          ELSE IF ~found_real_char /\ ~IsAlphanumeric(c)
            THEN CamelLike(rest, new_word, last_char, found_real_char, acc)
          ELSE IF IsDigit(c)
            THEN CamelLike(rest, TRUE, last_char, TRUE, Append(acc, c))
          ELSE IF new_word \/ (IsLower(last_char) /\ IsUpper(c) /\ last_char # " ")
            THEN CamelLike(rest, FALSE, last_char, TRUE, Append(acc, to_ascii_uppercase(c)))
          ELSE CamelLike(rest, new_word, c, TRUE, Append(acc, to_ascii_lowercase(c)))

to_pascal_case(s) == CamelLike(TrimRight(s), TRUE, " ", FALSE, <<>>)

\* The keywords syn refuses as an Ident
Keywords ==
  {<<"a", "b", "s", "t", "r", "a", "c", "t">>, <<"a", "s">>, <<"a", "s", "y", "n", "c">>, <<"a", "w", "a", "i", "t">>, <<"b", "e", "c", "o", "m", "e">>, <<"b", "o", "x">>, <<"b", "r", "e", "a", "k">>,
   <<"c", "o", "n", "s", "t">>, <<"c", "o", "n", "t", "i", "n", "u", "e">>, <<"c", "r", "a", "t", "e">>, <<"d", "o">>, <<"d", "y", "n">>, <<"e", "l", "s", "e">>, <<"e", "n", "u", "m">>,
   <<"e", "x", "t", "e", "r", "n">>, <<"f", "a", "l", "s", "e">>, <<"f", "i", "n", "a", "l">>, <<"f", "n">>, <<"f", "o", "r">>, <<"i", "f">>, <<"i", "m", "p", "l">>, <<"i", "n">>,
   <<"l", "e", "t">>, <<"l", "o", "o", "p">>, <<"m", "a", "c", "r", "o">>, <<"m", "a", "t", "c", "h">>, <<"m", "o", "d">>, <<"m", "o", "v", "e">>, <<"m", "u", "t">>,
   <<"o", "v", "e", "r", "r", "i", "d", "e">>, <<"p", "r", "i", "v">>, <<"p", "u", "b">>, <<"r", "e", "f">>, <<"r", "e", "t", "u", "r", "n">>, <<"S", "e", "l", "f">>, <<"s", "e", "l", "f">>,
   <<"s", "t", "a", "t", "i", "c">>, <<"s", "t", "r", "u", "c", "t">>, <<"s", "u", "p", "e", "r">>, <<"t", "r", "a", "i", "t">>, <<"t", "r", "u", "e">>, <<"t", "r", "y">>, <<"t", "y", "p", "e">>,
   <<"t", "y", "p", "e", "o", "f">>, <<"u", "n", "s", "a", "f", "e">>, <<"u", "n", "s", "i", "z", "e", "d">>, <<"u", "s", "e">>, <<"v", "i", "r", "t", "u", "a", "l">>, <<"w", "h", "e", "r", "e">>,
   <<"w", "h", "i", "l", "e">>, <<"y", "i", "e", "l", "d">>}

IsIdentStart(c) == IsUpper(c) \/ IsLower(c) \/ c = "_"

IsIdentContinue(c) == IsIdentStart(c) \/ IsDigit(c)

IsIdent(s) ==
  /\ s # <<>>
  /\ IsIdentStart(s[1])
  /\ \A i \in 2..Len(s) : IsIdentContinue(s[i])
  /\ s # <<"_">>
  /\ s \notin Keywords

\* syn::parse_str::<Ident>: Some(ident), or None for the parse error
ParseIdent(s) == IF IsIdent(Trim(s)) THEN <<Trim(s)>> ELSE <<>>

\* The pieces of s between the occurrences of `::`
RECURSIVE SplitColons(_, _)
SplitColons(s, cur) ==
  IF s = <<>> THEN <<cur>>
  ELSE IF Len(s) >= 2 /\ s[1] = ":" /\ s[2] = ":"
    THEN <<cur>> \o SplitColons(SubSeq(s, 3, Len(s)), <<>>)
  ELSE SplitColons(Tail(s), Append(cur, Head(s)))

\* A syn::Path without generic arguments
MkPath(leading_colon, segments) ==
  [leading_colon |-> leading_colon, segments |-> segments]

\* syn::parse_str::<Path>: Some(path), or None for the parse error
ParsePath(s) ==
  LET pieces == SplitColons(Trim(s), <<>>)
      leading == Len(pieces) >= 2 /\ pieces[1] = <<>>
      segs == IF leading THEN Tail(pieces) ELSE pieces
      isSegment(p) == IsIdent(Trim(p)) \/ Trim(p) \in {<<"c", "r", "a", "t", "e">>, <<"s", "e", "l", "f">>, <<"s", "u", "p", "e", "r">>, <<"S", "e", "l", "f">>}
  IN IF \A i \in 1..Len(segs) : isSegment(segs[i])
       THEN <<MkPath(leading, [i \in 1..Len(segs) |-> Trim(segs[i])])>>
     ELSE <<>>

(***************************************************************************)
(* The syntax tree (syn) and its printing (quote, proc_macro2)             *)
(***************************************************************************)
\* syn::Attribute: a path and the tokens after it, which expand never reads
MkAttr(segments, tokens) == [path |-> MkPath(FALSE, segments), tokens |-> tokens]

\* syn::Path::is_ident
is_ident(path, ident) == ~path.leading_colon /\ path.segments = <<ident>>

\* syn::PathSegment: an identifier and its angle-bracketed type arguments
Segment(ident, arguments) == [ident |-> ident, arguments |-> arguments]

\* syn::Type::Path: `segments`, or `<qself as segments[1..position]>::rest`
TypePath(qself, position, segments) ==
  [kind |-> "Path", qself |-> qself, position |-> position,
   segments |-> segments, elems |-> <<>>]

\* syn::Type::Reference: `&elem`
TypeReference(elem) ==
  [kind |-> "Reference", qself |-> <<>>, position |-> 0,
   segments |-> <<>>, elems |-> <<elem>>]

\* syn::Type::Tuple: `(elems)`
TypeTuple(elems) ==
  [kind |-> "Tuple", qself |-> <<>>, position |-> 0,
   segments |-> <<>>, elems |-> elems]

\* syn::Field: `ident` is None for a field of a tuple variant
MkField(attrs, ident, ty) == [attrs |-> attrs, ident |-> ident, ty |-> ty]

\* syn::Variant
MkVariant(attrs, ident, fields, discriminant) ==
  [attrs |-> attrs, ident |-> ident, fields |-> fields, discriminant |-> discriminant]

\* syn::DeriveInput of an enum: its attributes, name, type parameters, variants
MkInput(attrs, ident, ty_params, variants) ==
  [attrs |-> attrs, ident |-> ident, ty_params |-> ty_params, variants |-> variants]

\* ToTokens: the tokens of a type, of a path segment, of a list of types
RECURSIVE TypeTokens(_)
RECURSIVE SegmentTokens(_)
RECURSIVE SegmentsTokens(_)
RECURSIVE ListTokens(_)
TypeTokens(ty) ==
  IF ty.kind = "Reference" THEN <<<<"&">>>> \o TypeTokens(ty.elems[1])
  ELSE IF ty.kind = "Tuple" THEN <<<<"(">>>> \o ListTokens(ty.elems) \o <<<<")">>>>
  ELSE IF ty.qself = <<>> THEN SegmentsTokens(ty.segments)
  ELSE LET pos == IF ty.position < Len(ty.segments) THEN ty.position ELSE Len(ty.segments)
           rest == SubSeq(ty.segments, pos + 1, Len(ty.segments))
       IN <<<<"<">>>> \o TypeTokens(ty.qself[1])
          \o (IF pos > 0
                THEN <<<<"a", "s">>>> \o SegmentsTokens(SubSeq(ty.segments, 1, pos)) \o <<<<">">>>>
                     \o (IF rest = <<>> THEN <<>> ELSE <<<<":", ":">>>>)
              ELSE <<<<">">>>>)
          \o SegmentsTokens(rest)
SegmentTokens(seg) ==
  IF seg.arguments = <<>> THEN <<seg.ident>>
  ELSE <<seg.ident, <<"<">>>> \o ListTokens(seg.arguments) \o <<<<">">>>>
SegmentsTokens(segs) ==
  IF segs = <<>> THEN <<>>
  ELSE IF Len(segs) = 1 THEN SegmentTokens(segs[1])
  ELSE SegmentTokens(segs[1]) \o <<<<":", ":">>>> \o SegmentsTokens(Tail(segs))
ListTokens(tys) ==
  IF tys = <<>> THEN <<>>
  ELSE IF Len(tys) = 1 THEN TypeTokens(tys[1])
  ELSE TypeTokens(tys[1]) \o <<<<",">>>> \o ListTokens(Tail(tys))

\* TokenStream::to_string: the tokens, one space between each two of them
to_string(tokens) == Concat(Separated(tokens, <<" ">>))

\* synstructure's BindingInfo::referenced_ty_params: the type parameters of
\* the input whose identifier occurs in the field's type
referenced_ty_params(binding, ty_params) ==
  LET tokens == TypeTokens(binding.ty)
  IN {p \in ty_params : \E i \in 1..Len(tokens) : tokens[i] = p}

(***************************************************************************)
(* BTreeMap<String, String>: the entries in ascending order of the key     *)
(***************************************************************************)
BTreeContains(map, key) == \E i \in 1..Len(map) : map[i].key = key

BTreeGet(map, key) == map[CHOOSE i \in 1..Len(map) : map[i].key = key].value

BTreeInsert(map, key, value) ==
  LET less == SelectSeq(map, LAMBDA e : StrLess(e.key, key))
      more == SelectSeq(map, LAMBDA e : StrLess(key, e.key))
  IN less \o <<[key |-> key, value |-> value]>> \o more

\* BTreeMap::values
BTreeValues(map) == [i \in 1..Len(map) |-> map[i].value]

(***************************************************************************)
(* PalletCallConfig                                                        *)
(***************************************************************************)
\* #[derive(Default)] PalletCallConfig
DefaultConfig ==
  [name |-> <<>>,
   variant_name_conversion |-> <<>>,
   generic_name_conversion |-> <<>>,
   call_parameter_style |-> "Unnamed",
   keep_comments |-> FALSE,
   codec_crate |-> <<>>,
   runtime_debug |-> <<>>,
   additional_attr |-> <<>>,
   additional_derives |-> <<>>]

\* The closures a caller passes to variant_name: `|s| s.to_string()`, the one
\* of fn x, and `|s| s.to_uppercase()`
VariantNameFns == {"to_string", "to_uppercase"}

\* A variant_name closure applied to the name of a variant
ApplyVariantName(f, s) ==
  IF f = "to_string" THEN s
  ELSE [i \in 1..Len(s) |-> to_ascii_uppercase(s[i])]

\* The closures a caller passes to generic_name: the identifier of the last
\* path segment without its type arguments
GenericNameFns == {"last_ident"}

\* A generic_name closure applied to a TypePath
ApplyGenericName(f, path) == path.segments[Len(path.segments)].ident

(***************************************************************************)
(* PalletCall::expand                                                      *)
(***************************************************************************)
\* The errors expand returns: the one it builds itself and the parse errors
\* of syn it propagates with `?`
UnsupportedFieldType == "Only TypePaths are supported currently"

IdentError == "syn::parse_str::<Ident>"

PathError == "syn::parse_str::<Path>"

FieldsError == "syn::parse_str::<FieldsUnnamed>"

\* Err(error)
Err(error) == [ok |-> FALSE, err |-> error, out |-> <<>>]

\* Ok(call_enum)
Ok(call_enum) == [ok |-> TRUE, err |-> "", out |-> <<call_enum>>]

\* remove_doc_attributes with `path.segments.last() == "doc"` for
\* `path.is_ident("doc")`
remove_doc_attributes_last(attrs) ==
  SelectSeq(attrs, LAMBDA attr : attr.path.segments[Len(attr.path.segments)] # <<"d", "o", "c">>)

\* attrs.retain(|attr| !attr.path.is_ident("doc"))
remove_doc_attributes(attrs) ==
  SelectSeq(attrs, LAMBDA attr : ~is_ident(attr.path, <<"d", "o", "c">>))

\* The predicate of skip_while: the variant is the `__ignore` variant
IsIgnore(v) == to_lowercase(v.ident) = <<"_", "_", "i", "g", "n", "o", "r", "e">>

\* Iterator::skip_while: the variants from the first one that is not `__ignore`
RECURSIVE SkipWhileIgnore(_)
SkipWhileIgnore(vs) ==
  IF vs # <<>> /\ IsIgnore(Head(vs)) THEN SkipWhileIgnore(Tail(vs)) ELSE vs

\* The name of the generic for a type path that is not in the map yet
GenericName(config, path) ==
  IF config.generic_name_conversion # <<>>
    THEN ApplyGenericName(config.generic_name_conversion[1], path)
  ELSE to_string(SegmentTokens(path.segments[Len(path.segments)]))

\* generics.entry(ty_str).or_insert_with(..): the map after the call
EntryOrInsert(generics, ty_str, value) ==
  IF BTreeContains(generics, ty_str) THEN generics
  ELSE BTreeInsert(generics, ty_str, value)

\* What one pass of a loop leaves: the error that ends expand if there is one,
\* the map of the generics, and the field, the fields, the variant or the
\* variants built so far
Pass(err, generics, built) == [err |-> err, generics |-> generics, built |-> built]

\* The field with the generic `ident` as its type: `ident` is what
\* syn::parse_str::<Ident> makes of the name of the generic
FieldOfGeneric(generics, ident, binding) ==
  IF ident = <<>> THEN Pass(IdentError, generics, binding)
  ELSE Pass("", generics,
            [binding EXCEPT !.ty = TypePath(<<>>, 0, <<Segment(ident[1], <<>>)>>)])

\* A field whose type is a path that references a type parameter
GenericBinding(generics, ty_str, binding) ==
  FieldOfGeneric(generics, ParseIdent(BTreeGet(generics, ty_str)), binding)

\* ExpandBinding without the `else` of `if let Type::Path`: a field whose
\* type is not a path is pushed as it is
ExpandBinding_AnyType(config, ty_params, generics, binding) ==
  IF binding.ty.kind # "Path" THEN Pass("", generics, binding)
  ELSE IF referenced_ty_params(binding, ty_params) = {} THEN Pass("", generics, binding)
  ELSE GenericBinding(EntryOrInsert(generics, to_string(TypeTokens(binding.ty)),
                                    GenericName(config, binding.ty)),
                      to_string(TypeTokens(binding.ty)), binding)

\* One pass of the loop over the bindings of a variant
ExpandBinding(config, ty_params, generics, binding) ==
  IF binding.ty.kind # "Path" THEN Pass(UnsupportedFieldType, generics, binding)
  ELSE IF referenced_ty_params(binding, ty_params) = {} THEN Pass("", generics, binding)
  ELSE GenericBinding(EntryOrInsert(generics, to_string(TypeTokens(binding.ty)),
                                    GenericName(config, binding.ty)),
                      to_string(TypeTokens(binding.ty)), binding)

\* The loop over the bindings of a variant: ExpandBindings starts a pass,
\* NextBinding goes on after it
RECURSIVE ExpandBindings(_, _, _, _, _)
RECURSIVE NextBinding(_, _, _, _, _)
ExpandBindings(config, ty_params, generics, bindings, fields) ==
  IF bindings = <<>> THEN Pass("", generics, fields)
  ELSE NextBinding(config, ty_params,
                   ExpandBinding(config, ty_params, generics, Head(bindings)),
                   Tail(bindings), fields)
NextBinding(config, ty_params, pass, bindings, fields) ==
  IF pass.err # "" THEN Pass(pass.err, pass.generics, fields)
  ELSE ExpandBindings(config, ty_params, pass.generics, bindings,
                      Append(fields, pass.built))

\* syn::parse_str::<FieldsUnnamed> of the printed fields: a field of a tuple
\* is its attributes and its type; `name: Type` is a parse error
ParseFieldsUnnamed(fields) ==
  IF \E i \in 1..Len(fields) : fields[i].ident # <<>> THEN <<>>
  ELSE <<[i \in 1..Len(fields) |-> MkField(fields[i].attrs, <<>>, fields[i].ty)]>>

\* The name of the output variant before it is parsed as an Ident
VariantName(config, ast) ==
  IF config.variant_name_conversion # <<>>
    THEN ApplyVariantName(config.variant_name_conversion[1], ast.ident)
  ELSE to_pascal_case(ast.ident)

\* The attributes of the output variant
VariantAttrs(config, ast) ==
  IF ~config.keep_comments THEN remove_doc_attributes(ast.attrs) ELSE ast.attrs

\* The end of a pass of the loop over the variants: the parsed fields and
\* the variant that is pushed
PushVariant(generics, ast, variant_name, fields, attrs) ==
  IF fields = <<>> THEN Pass(FieldsError, generics, ast)
  ELSE Pass("", generics, MkVariant(attrs, variant_name, fields[1], ast.discriminant))

\* A pass of the loop over the variants once the name is parsed and the
\* bindings are rewritten
BuildVariant(config, ast, variant_name, pass) ==
  IF variant_name = <<>> THEN Pass(IdentError, pass.generics, ast)
  ELSE IF pass.err # "" THEN Pass(pass.err, pass.generics, ast)
  ELSE PushVariant(pass.generics, ast, variant_name[1],
                   ParseFieldsUnnamed(pass.built), VariantAttrs(config, ast))

\* One pass of the loop over the variants
ExpandVariant(config, ty_params, generics, ast) ==
  BuildVariant(config, ast, ParseIdent(VariantName(config, ast)),
               ExpandBindings(config, ty_params, generics, ast.fields, <<>>))

\* The loop over the variants the skip_while lets through
RECURSIVE ExpandVariants(_, _, _, _, _)
RECURSIVE NextVariant(_, _, _, _, _)
ExpandVariants(config, ty_params, generics, asts, variants) ==
  IF asts = <<>> THEN Pass("", generics, variants)
  ELSE NextVariant(config, ty_params,
                   ExpandVariant(config, ty_params, generics, Head(asts)),
                   Tail(asts), variants)
NextVariant(config, ty_params, pass, asts, variants) ==
  IF pass.err # "" THEN Pass(pass.err, pass.generics, variants)
  ELSE ExpandVariants(config, ty_params, pass.generics, asts,
                      Append(variants, pass.built))

\* The string parsed as the name of the call enum
CallEnumName(config) == IF config.name # <<>> THEN config.name[1] ELSE <<"C", "a", "l", "l">>

\* The string parsed as the name of the codec crate
CodecCrateName(config) == IF config.name # <<>> THEN config.name[1] ELSE <<"c", "o", "d", "e", "c">>

\* The path of the RuntimeDebug derive: None when it does not parse
RuntimeDbg(config) ==
  IF config.runtime_debug = <<>> THEN <<>>
  ELSE ParsePath(config.runtime_debug[1] \o <<":", ":", "R", "u", "n", "t", "i", "m", "e", "D", "e", "b", "u", "g">>)

\* The attributes of the input declaration, kept in call_enum_attrs
InputEnumAttrs(config, input_attrs) ==
  IF ~config.keep_comments THEN remove_doc_attributes(input_attrs) ELSE input_attrs

\* The paths of #[derive(..)]
Derives(codec, additional_derives) ==
  <<MkPath(FALSE, <<<<"C", "l", "o", "n", "e">>>>), MkPath(FALSE, <<<<"P", "a", "r", "t", "i", "a", "l", "E", "q">>>>),
    MkPath(FALSE, <<<<"E", "q">>>>),
    MkPath(FALSE, <<codec, <<"E", "n", "c", "o", "d", "e">>>>),
    MkPath(FALSE, <<codec, <<"D", "e", "c", "o", "d", "e">>>>)>> \o additional_derives

\* The attributes quote! writes between the derives and `pub enum`:
\* call_enum_attrs is not among them
CallEnumAttrs(call_enum_attrs, additional_attr) == additional_attr

\* The declaration quote! writes
CallEnum(derives, runtime_dbg, attrs, enum_name, generics, variants) ==
  [derives |-> derives, runtime_dbg |-> runtime_dbg, attrs |-> attrs,
   name |-> enum_name, generics |-> generics, variants |-> variants]

\* The generics parsed as Idents
ParseGenerics(values) == [i \in 1..Len(values) |-> ParseIdent(values[i])]

\* The end of expand: the generics and the quote!
Emit(config, enum_name, codec, runtime_dbg, variants, call_enum_attrs, generics) ==
  IF \E i \in 1..Len(generics) : generics[i] = <<>> THEN Err(IdentError)
  ELSE Ok(CallEnum(Derives(codec, config.additional_derives),
                   runtime_dbg,
                   CallEnumAttrs(call_enum_attrs, config.additional_attr),
                   enum_name,
                   [i \in 1..Len(generics) |-> generics[i][1]],
                   variants))

\* expand once the names are parsed and the loop over the variants is done
Finish(config, input_attrs, enum_name, codec, runtime_dbg, pass) ==
  IF enum_name = <<>> THEN Err(IdentError)
  ELSE IF codec = <<>> THEN Err(IdentError)
  ELSE IF config.runtime_debug # <<>> /\ runtime_dbg = <<>> THEN Err(PathError)
  ELSE IF pass.err # "" THEN Err(pass.err)
  ELSE Emit(config, enum_name[1], codec[1], runtime_dbg, pass.built,
            InputEnumAttrs(config, input_attrs),
            ParseGenerics(BTreeValues(pass.generics)))

\* PalletCall::expand
expand(config, enum) ==
  Finish(config, enum.attrs,
         ParseIdent(CallEnumName(config)),
         ParseIdent(CodecCrateName(config)),
         RuntimeDbg(config),
         ExpandVariants(config, enum.ty_params, <<>>, SkipWhileIgnore(enum.variants), <<>>))

(***************************************************************************)
(* The inputs the model draws: types, attributes, enums                    *)
(***************************************************************************)
\* `T::Balance`
TyBalance == TypePath(<<>>, 0, <<Segment(<<"T">>, <<>>), Segment(<<"B", "a", "l", "a", "n", "c", "e">>, <<>>)>>)

\* `T::AccountId`
TyAccountId == TypePath(<<>>, 0, <<Segment(<<"T">>, <<>>), Segment(<<"A", "c", "c", "o", "u", "n", "t", "I", "d">>, <<>>)>>)

\* `<T::Lookup as StaticLookup>::Source`, the first field of the example of expand
TySource ==
  TypePath(<<TypePath(<<>>, 0, <<Segment(<<"T">>, <<>>), Segment(<<"L", "o", "o", "k", "u", "p">>, <<>>)>>)>>, 1,
           <<Segment(<<"S", "t", "a", "t", "i", "c", "L", "o", "o", "k", "u", "p">>, <<>>), Segment(<<"S", "o", "u", "r", "c", "e">>, <<>>)>>)

\* `<T as Currency>::Balance`
TyCurrencyBalance ==
  TypePath(<<TypePath(<<>>, 0, <<Segment(<<"T">>, <<>>)>>)>>, 1,
           <<Segment(<<"C", "u", "r", "r", "e", "n", "c", "y">>, <<>>), Segment(<<"B", "a", "l", "a", "n", "c", "e">>, <<>>)>>)

\* `u32`
TyU32 == TypePath(<<>>, 0, <<Segment(<<"u", "3", "2">>, <<>>)>>)

\* `Vec<T::Balance>`
TyVecBalance == TypePath(<<>>, 0, <<Segment(<<"V", "e", "c">>, <<TyBalance>>)>>)

\* `&T::Balance`
TyRefBalance == TypeReference(TyBalance)

\* `(u32, u32)`
TyTuple == TypeTuple(<<TyU32, TyU32>>)

\* `/// Set the balance`
AttrDoc == MkAttr(<<<<"d", "o", "c">>>>, "= (Set the balance)")

\* `#[codec(compact)]`
AttrCompact == MkAttr(<<<<"c", "o", "d", "e", "c">>>>, "(compact)")

\* `#[allow(non_camel_case_types)]`
AttrAllow == MkAttr(<<<<"a", "l", "l", "o", "w">>>>, "(non_camel_case_types)")

\* `#[serde::doc(hidden)]`: a path that ends in `doc` and is not the ident `doc`
AttrSerdeDoc == MkAttr(<<<<"s", "e", "r", "d", "e">>, <<"d", "o", "c">>>>, "(hidden)")

\* The i-th call of a pallet: `call_1`, `call_2`, ..
CallName(i) == <<"c", "a", "l", "l", "_">> \o <<Chr(48 + i)>>

\* The type parameters of `pub enum Call<T: Config>`
TyParams == {<<"T">>}

\* The field types of the inputs whose types vary
FieldTypes ==
  {TyBalance, TyAccountId, TyCurrencyBalance, TyU32, TyVecBalance, TyRefBalance, TyTuple}

\* The sum of the first n numbers of a sequence
RECURSIVE SumTo(_, _)
SumTo(counts, n) == IF n = 0 THEN 0 ELSE counts[n] + SumTo(counts, n - 1)

\* The enum of Len(counts) variants whose i-th variant is `__Ignore` if
\* ignore[i] and the i-th call if not, with counts[i] unnamed fields and no
\* attribute; tys are the types of the fields of all variants, in order
GenericEnum(ignore, counts, tys) ==
  MkInput(<<>>, <<"C", "a", "l", "l">>, TyParams,
    <<>> \o [i \in 1..Len(counts) |->
       MkVariant(<<>>, IF ignore[i] THEN <<"_", "_", "I", "g", "n", "o", "r", "e">> ELSE CallName(i),
                 <<>> \o [j \in 1..counts[i] |->
                            MkField(<<>>, <<>>, tys[SumTo(counts, i - 1) + j])],
                 <<>>)])

\* The attributes of the inputs whose attributes vary
InputAttrs == {AttrDoc, AttrCompact, AttrSerdeDoc}

\* The fields, each with some attributes, at most `budget` in all
RECURSIVE FieldsWithAttrs(_, _)
FieldsWithAttrs(fields, budget) ==
  IF fields = <<>> THEN {<<>>}
  ELSE UNION {
         UNION {
           { <<[Head(fields) EXCEPT !.attrs = attrs]>> \o rest :
               rest \in FieldsWithAttrs(Tail(fields), budget - k) }
           : attrs \in [1..k -> InputAttrs] }
         : k \in 0..budget }

RECURSIVE CountFieldAttrs(_)
CountFieldAttrs(fields) ==
  IF fields = <<>> THEN 0
  ELSE Len(Head(fields).attrs) + CountFieldAttrs(Tail(fields))

\* The variants, each and each of its fields with some attributes, at most
\* `budget` in all
RECURSIVE VariantsWithAttrs(_, _)
VariantsWithAttrs(variants, budget) ==
  IF variants = <<>> THEN {<<>>}
  ELSE UNION {
         UNION {
           UNION {
             { <<[Head(variants) EXCEPT !.attrs = attrs, !.fields = fields]>> \o rest :
                 rest \in VariantsWithAttrs(Tail(variants),
                                            budget - k - CountFieldAttrs(fields)) }
             : fields \in FieldsWithAttrs(Head(variants).fields, budget - k) }
           : attrs \in [1..k -> InputAttrs] }
         : k \in 0..budget }

\* The enum with some attributes on the declaration, its variants and their
\* fields, at most `budget` in all
InputsWithAttrs(enum, budget) ==
  UNION {
    UNION {
      { [enum EXCEPT !.attrs = attrs, !.variants = variants] :
          variants \in VariantsWithAttrs(enum.variants, budget - k) }
      : attrs \in [1..k -> InputAttrs] }
    : k \in 0..budget }

\* `pub enum Call<T: Config> {}`
EnumEmpty == MkInput(<<>>, <<"C", "a", "l", "l">>, TyParams, <<>>)

\* `pub enum Call<T: Config> { call_1(u32, T::Balance) }`
EnumOneCall ==
  MkInput(<<>>, <<"C", "a", "l", "l">>, TyParams,
    <<MkVariant(<<>>, CallName(1),
        <<MkField(<<>>, <<>>, TyU32), MkField(<<>>, <<>>, TyBalance)>>, <<>>)>>)

\* `pub enum Call<T: Config> { __Ignore(u32), call_2(T::Balance, T::Balance) }`
EnumIgnoreFirst ==
  MkInput(<<>>, <<"C", "a", "l", "l">>, TyParams,
    <<MkVariant(<<>>, <<"_", "_", "I", "g", "n", "o", "r", "e">>, <<MkField(<<>>, <<>>, TyU32)>>, <<>>),
      MkVariant(<<>>, CallName(2),
        <<MkField(<<>>, <<>>, TyBalance), MkField(<<>>, <<>>, TyBalance)>>, <<>>)>>)

\* `pub enum Call<T: Config> { call_1(T::AccountId), __Ignore() }`
EnumIgnoreLast ==
  MkInput(<<>>, <<"C", "a", "l", "l">>, TyParams,
    <<MkVariant(<<>>, CallName(1), <<MkField(<<>>, <<>>, TyAccountId)>>, <<>>),
      MkVariant(<<>>, <<"_", "_", "I", "g", "n", "o", "r", "e">>, <<>>, <<>>)>>)

\* The enums whose attributes vary
AttrInputs ==
  UNION { InputsWithAttrs(enum, MaxAttrs) :
            enum \in {EnumEmpty, EnumOneCall, EnumIgnoreFirst, EnumIgnoreLast} }

\* The example of the documentation of expand
EnumExample ==
  MkInput(<<AttrDoc, AttrAllow>>, <<"C", "a", "l", "l">>, TyParams,
    <<MkVariant(<<AttrDoc>>, <<"s", "e", "t", "_", "b", "a", "l", "a", "n", "c", "e">>,
        <<MkField(<<>>, <<>>, TySource),
          MkField(<<AttrCompact>>, <<>>, TyBalance),
          MkField(<<AttrCompact>>, <<>>, TyBalance)>>, <<>>)>>)

\* `pub enum Call<T: Config> { transfer { dest: T::AccountId, value: u32 } }`
EnumNamedFields ==
  MkInput(<<>>, <<"C", "a", "l", "l">>, TyParams,
    <<MkVariant(<<>>, <<"t", "r", "a", "n", "s", "f", "e", "r">>,
        <<MkField(<<>>, <<<<"d", "e", "s", "t">>>>, TyAccountId),
          MkField(<<>>, <<<<"v", "a", "l", "u", "e">>>>, TyU32)>>, <<>>)>>)

\* `pub enum Call<T: Config> { __Ignore(Vec<T::Balance>), transfer = 1 }`
EnumDiscriminant ==
  MkInput(<<>>, <<"C", "a", "l", "l">>, TyParams,
    <<MkVariant(<<>>, <<"_", "_", "I", "g", "n", "o", "r", "e">>, <<MkField(<<>>, <<>>, TyVecBalance)>>, <<>>),
      MkVariant(<<>>, <<"t", "r", "a", "n", "s", "f", "e", "r">>, <<>>, <<"= 1">>)>>)

\* `pub enum Call<T: Config> { __(u32) }`: a name to_pascal_case empties
EnumUnderscores ==
  MkInput(<<>>, <<"C", "a", "l", "l">>, TyParams,
    <<MkVariant(<<>>, <<"_", "_">>, <<MkField(<<>>, <<>>, TyU32)>>, <<>>)>>)

\* The enums the configuration varies over
ConfigInputs == {EnumExample, EnumNamedFields, EnumDiscriminant, EnumUnderscores}

\* The names a caller passes to name
EnumNames == {<<"M", "y", "C", "a", "l", "l">>, <<"m", "y", " ", "c", "a", "l", "l">>}

\* The names a caller passes to codec_crate
CodecNames == {<<"p", "a", "r", "i", "t", "y", "_", "s", "c", "a", "l", "e", "_", "c", "o", "d", "e", "c">>, <<"s", "c", "a", "l", "e", " ", "c", "o", "d", "e", "c">>}

\* The crates a caller passes to use_runtime_debug_from_crate
DebugCrates == {<<"s", "p", "_", "r", "u", "n", "t", "i", "m", "e">>, <<"n", "o", "t", " ", "a", " ", "p", "a", "t", "h">>}

\* The strings a caller passes to push_derive_str
DeriveStrs == {<<"s", "e", "r", "d", "e", ":", ":", "S", "e", "r", "i", "a", "l", "i", "z", "e">>, <<"D", "e", "b", "u", "g", "+">>}

\* The paths a caller passes to push_derive
DerivePaths == {MkPath(FALSE, <<<<"D", "e", "b", "u", "g">>>>)}

\* The attributes a caller passes to push_attr
ExtraAttrs == {AttrAllow, MkAttr(<<<<"d", "o", "c">>>>, "= (Generated)")}

(***************************************************************************)
(* The state: the configuration under construction, the PalletCall that    *)
(* parse returns, and what expand returns                                  *)
(***************************************************************************)
VARIABLES pc, config, input, result

vars == <<pc, config, input, result>>

Init ==
  /\ pc = "config"
  /\ config = DefaultConfig
  /\ input = <<>>
  /\ result = <<>>

\* The setters of the builder: each is enabled until parse consumes the
\* configuration
name(n) ==
  /\ pc = "config"
  /\ config' = [config EXCEPT !.name = <<n>>]
  /\ UNCHANGED <<pc, input, result>>

variant_name(convert) ==
  /\ pc = "config"
  /\ config' = [config EXCEPT !.variant_name_conversion = <<convert>>]
  /\ UNCHANGED <<pc, input, result>>

generic_name(convert) ==
  /\ pc = "config"
  /\ config' = [config EXCEPT !.generic_name_conversion = <<convert>>]
  /\ UNCHANGED <<pc, input, result>>

keep_comments ==
  /\ pc = "config"
  /\ config' = [config EXCEPT !.keep_comments = TRUE]
  /\ UNCHANGED <<pc, input, result>>

codec_crate(codec) ==
  /\ pc = "config"
  /\ config' = [config EXCEPT !.codec_crate = <<codec>>]
  /\ UNCHANGED <<pc, input, result>>

use_runtime_debug_from_crate(debug) ==
  /\ pc = "config"
  /\ config' = [config EXCEPT !.runtime_debug = <<debug>>]
  /\ UNCHANGED <<pc, input, result>>

frame_support_runtime_debug ==
  /\ use_runtime_debug_from_crate(<<"f", "r", "a", "m", "e", "_", "s", "u", "p", "p", "o", "r", "t">>)

\* The derives after push_derive_str: on a parse error they are as before
PushDeriveStr(additional_derives, derive) ==
  IF derive = <<>> THEN additional_derives ELSE Append(additional_derives, derive[1])

push_derive_str(attr) ==
  /\ pc = "config"
  /\ Len(config.additional_derives) < MaxExtraDerives
  /\ config' = [config EXCEPT !.additional_derives = PushDeriveStr(@, ParsePath(attr))]
  /\ UNCHANGED <<pc, input, result>>

push_derive(derive) ==
  /\ pc = "config"
  /\ Len(config.additional_derives) < MaxExtraDerives
  /\ config' = [config EXCEPT !.additional_derives = Append(@, derive)]
  /\ UNCHANGED <<pc, input, result>>

push_attr(attr) ==
  /\ pc = "config"
  /\ Len(config.additional_attr) < MaxExtraAttrs
  /\ config' = [config EXCEPT !.additional_attr = Append(@, attr)]
  /\ UNCHANGED <<pc, input, result>>

\* PalletCallConfig::parse: content is the DeriveInput syn reads from the text
parse(content) ==
  /\ pc = "config"
  /\ pc' = "parsed"
  /\ input' = <<content>>
  /\ UNCHANGED <<config, result>>

\* parse of an enum whose field types vary
ParseGeneric ==
  /\ pc = "config"
  /\ \E n \in 0..MaxVariants :
       \E ignore \in [1..n -> BOOLEAN], counts \in [1..n -> 0..MaxFields] :
         /\ SumTo(counts, n) <= MaxFields
         /\ \E tys \in [1..SumTo(counts, n) -> FieldTypes] :
              parse(GenericEnum(ignore, counts, tys))

\* parse of an enum whose attributes vary
ParseAttr ==
  /\ pc = "config"
  /\ \E content \in AttrInputs : parse(content)

\* parse of one of the enums the configuration varies over
ParseExample ==
  /\ pc = "config"
  /\ \E content \in ConfigInputs : parse(content)

\* PalletCall::expand
Expand ==
  /\ pc = "parsed"
  /\ pc' = "expanded"
  /\ result' = <<expand(config, input[1])>>
  /\ UNCHANGED <<config, input>>

\* The enums whose field types vary, under every name and generic_name
NextGenerics ==
  \/ \E n \in EnumNames : name(n)
  \/ \E convert \in GenericNameFns : generic_name(convert)
  \/ ParseGeneric
  \/ Expand

SpecGenerics == Init /\ [][NextGenerics]_vars

\* The enums whose attributes vary, with and without keep_comments and
\* under every push_attr
NextAttrs ==
  \/ keep_comments
  \/ \E attr \in ExtraAttrs : push_attr(attr)
  \/ ParseAttr
  \/ Expand

SpecAttrs == Init /\ [][NextAttrs]_vars

\* A few enums under every configuration
NextConfig ==
  \/ \E n \in EnumNames : name(n)
  \/ \E convert \in VariantNameFns : variant_name(convert)
  \/ \E convert \in GenericNameFns : generic_name(convert)
  \/ keep_comments
  \/ \E codec \in CodecNames : codec_crate(codec)
  \/ \E debug \in DebugCrates : use_runtime_debug_from_crate(debug)
  \/ frame_support_runtime_debug
  \/ \E attr \in DeriveStrs : push_derive_str(attr)
  \/ \E derive \in DerivePaths : push_derive(derive)
  \/ \E attr \in ExtraAttrs : push_attr(attr)
  \/ ParseExample
  \/ Expand

SpecConfig == Init /\ [][NextConfig]_vars

(***************************************************************************)
(* The vocabulary of the claims                                            *)
(***************************************************************************)
\* expand has returned
Done == pc = "expanded"

\* expand has returned Ok
Succeeded == Done /\ result[1].ok

\* The declaration expand returned
Out == result[1].out[1]

\* The enum expand was given
In == input[1]

\* The variant is the reserved placeholder
Sentinel(v) == to_lowercase(v.ident) = <<"_", "_", "i", "g", "n", "o", "r", "e">>

NonSentinel(variants) == SelectSeq(variants, LAMBDA v : ~Sentinel(v))

\* The attribute is a documentation attribute
IsDoc(attr) == attr.path = MkPath(FALSE, <<<<"d", "o", "c">>>>)

NonDoc(attrs) == SelectSeq(attrs, LAMBDA attr : ~IsDoc(attr))

\* The field's type is a path that names a type parameter of the enum
ContextBound(field) ==
  /\ field.ty.kind = "Path"
  /\ \E i \in 1..Len(TypeTokens(field.ty)) : TypeTokens(field.ty)[i] \in In.ty_params

\* The canonical text of the field's type
Canonical(field) == to_string(TypeTokens(field.ty))

\* The type `ident`
TypeOfIdent(ident) == TypePath(<<>>, 0, <<Segment(ident, <<>>)>>)

\* The input variants that have an output variant: expand drops variants
\* from the front only
Processed ==
  SubSeq(In.variants, Len(In.variants) - Len(Out.variants) + 1, Len(In.variants))

\* The fields of the variants, in order
RECURSIVE FieldsOf(_)
FieldsOf(variants) ==
  IF variants = <<>> THEN <<>> ELSE Head(variants).fields \o FieldsOf(Tail(variants))

\* The number of times x occurs in the sequence
Occurrences(seq, x) == Cardinality({i \in 1..Len(seq) : seq[i] = x})

\* The generics of the output fields at the first occurrence of each canonical
\* text among the context-bound input fields, in the order of the fields
RECURSIVE FirstSeen(_, _, _)
FirstSeen(ins, outs, seen) ==
  IF ins = <<>> THEN <<>>
  ELSE IF ContextBound(Head(ins)) /\ Canonical(Head(ins)) \notin seen
    THEN <<Head(outs).ty.segments[1].ident>>
         \o FirstSeen(Tail(ins), Tail(outs), seen \cup {Canonical(Head(ins))})
  ELSE FirstSeen(Tail(ins), Tail(outs), seen)

(***************************************************************************)
(* The claims                                                              *)
(***************************************************************************)
\* C1: when expand succeeds, two processed fields whose context-bound types
\* have the same canonical text get the same generic, and that generic occurs
\* exactly once in the list of generics of the output.
C1_SameTextSameGenericOnce ==
  Succeeded =>
    \A i, j \in 1..Len(FieldsOf(Processed)) :
      LET a == FieldsOf(Processed)[i]
          b == FieldsOf(Processed)[j]
          x == FieldsOf(Out.variants)[i]
          y == FieldsOf(Out.variants)[j]
      IN (ContextBound(a) /\ ContextBound(b) /\ Canonical(a) = Canonical(b)) =>
           /\ x.ty = y.ty
           /\ Occurrences(Out.generics, x.ty.segments[1].ident) = 1

\* C2: when expand succeeds, the generics of the output are in the order in
\* which each distinct context-bound type is first met, variant by variant and
\* field by field.
C2_GenericsInFirstSeenOrder ==
  Succeeded =>
    Out.generics = FirstSeen(FieldsOf(Processed), FieldsOf(Out.variants), {})

\* C3: a variant named `__ignore`, in any case and at any place of the enum,
\* has no output variant, and its fields add no generic.
C3_SentinelNowhereInOutput ==
  Succeeded =>
    /\ \A i \in 1..Len(Processed) : ~Sentinel(Processed[i])
    /\ \A g \in 1..Len(Out.generics) :
         \E i \in 1..Len(Processed) :
           /\ ~Sentinel(Processed[i])
           /\ \E j \in 1..Len(Processed[i].fields) :
                /\ ContextBound(Processed[i].fields[j])
                /\ Out.variants[i].fields[j].ty = TypeOfIdent(Out.generics[g])

\* The first error expand can meet is not met before the field j of the
\* variant i: the names of the configuration parse, and so do the names of the
\* variants up to i and of the generics of the fields before the field, and no
\* variant before i has named fields
CleanBefore(i, j) ==
  /\ ParseIdent(IF config.name = <<>> THEN <<"C", "a", "l", "l">> ELSE config.name[1]) # <<>>
  /\ config.runtime_debug # <<>> =>
       ParsePath(config.runtime_debug[1] \o <<":", ":", "R", "u", "n", "t", "i", "m", "e", "D", "e", "b", "u", "g">>) # <<>>
  /\ \A k \in 1..i : ParseIdent(VariantName(config, In.variants[k])) # <<>>
  /\ \A k \in 1..i : \A f \in 1..Len(In.variants[k].fields) :
       (k < i \/ f < j) =>
         /\ k < i => In.variants[k].fields[f].ident = <<>>
         /\ ContextBound(In.variants[k].fields[f]) =>
              ParseIdent(GenericName(config, In.variants[k].fields[f].ty)) # <<>>

\* The field j of the variant i is a field of a variant that is not the
\* placeholder, and its type is not a path
NonPathAt(i, j) ==
  /\ ~Sentinel(In.variants[i])
  /\ In.variants[i].fields[j].ty.kind # "Path"

Collision ==
  \E a, b \in {FieldsOf(NonSentinel(In.variants))[n] :
                 n \in 1..Len(FieldsOf(NonSentinel(In.variants)))} :
    /\ ContextBound(a) /\ ContextBound(b)
    /\ Canonical(a) # Canonical(b)
    /\ GenericName(config, a.ty) = GenericName(config, b.ty)

\* C5: when two context-bound types of different canonical texts get the same
\* generic name, expand fails: it never returns a declaration.
C5_CollisionFails == (Done /\ Collision) => ~result[1].ok

\* C6: the Encode and Decode derives of a declaration expand returns are
\* paths of the crate given to codec_crate, of `codec` when none was given,
\* whatever the rest of the configuration.
C6_DerivesUnderCodecCrate ==
  Succeeded =>
    LET codec == IF config.codec_crate = <<>> THEN <<"c", "o", "d", "e", "c">> ELSE config.codec_crate[1]
    IN /\ \E i \in 1..Len(Out.derives) : Out.derives[i] = MkPath(FALSE, <<codec, <<"E", "n", "c", "o", "d", "e">>>>)
       /\ \E i \in 1..Len(Out.derives) : Out.derives[i] = MkPath(FALSE, <<codec, <<"D", "e", "c", "o", "d", "e">>>>)

\* The attributes of the input: of the declaration, of the variants and of
\* their fields
AttrsOfInput ==
  {In.attrs[k] : k \in 1..Len(In.attrs)}
  \cup UNION {{In.variants[i].attrs[k] : k \in 1..Len(In.variants[i].attrs)} :
                i \in 1..Len(In.variants)}
  \cup UNION {{f.attrs[k] : k \in 1..Len(f.attrs)} :
                f \in {FieldsOf(In.variants)[n] : n \in 1..Len(FieldsOf(In.variants))}}

\* None of the attributes is a doc attribute of the input
NoDocOfInput(attrs) ==
  \A k \in 1..Len(attrs) : ~(IsDoc(attrs[k]) /\ attrs[k] \in AttrsOfInput)

\* C7: without keep_comments, no doc attribute of the input is in a
\* declaration expand returns: not on the declaration, not on a variant, not
\* on a field.
C7_NoDocWithoutKeepComments ==
  (Succeeded /\ ~config.keep_comments) =>
    /\ NoDocOfInput(Out.attrs)
    /\ \A i \in 1..Len(Out.variants) :
         /\ NoDocOfInput(Out.variants[i].attrs)
         /\ \A j \in 1..Len(Out.variants[i].fields) :
              NoDocOfInput(Out.variants[i].fields[j].attrs)

\* C8: the attributes of a declaration expand returns are the attributes of
\* the input declaration in their order, without the doc attributes unless
\* keep_comments is set, and then the attributes pushed with push_attr in the
\* order of the pushes.
C8_DeclarationAttrs ==
  Succeeded =>
    Out.attrs = (IF config.keep_comments THEN In.attrs ELSE NonDoc(In.attrs))
                \o config.additional_attr

\* C9: a declaration expand returns has, on the variant and on each field of
\* the variant that it makes of an input variant, the attributes of the input
\* other than doc, unchanged and in their order, whether keep_comments is set
\* or not and whether the type of the field was rewritten or not; with
\* keep_comments it has the doc attributes too.
C9_AttrsOfVariantsAndFieldsKept ==
  Succeeded =>
    /\ Len(Out.variants) <= Len(In.variants)
    /\ \A i \in 1..Len(Out.variants) :
         /\ Out.variants[i].ident = VariantName(config, Processed[i])
         /\ NonDoc(Out.variants[i].attrs) = NonDoc(Processed[i].attrs)
         /\ config.keep_comments => Out.variants[i].attrs = Processed[i].attrs
         /\ Len(Out.variants[i].fields) = Len(Processed[i].fields)
         /\ \A j \in 1..Len(Processed[i].fields) :
              /\ NonDoc(Out.variants[i].fields[j].attrs) = NonDoc(Processed[i].fields[j].attrs)
              /\ config.keep_comments =>
                   Out.variants[i].fields[j].attrs = Processed[i].fields[j].attrs

\* expand has returned, without keep_comments, a declaration for an input
\* with a doc attribute on a variant and an attribute other than doc on a
\* field of that variant whose type was rewritten
C9_Witness ==
  /\ Succeeded
  /\ ~config.keep_comments
  /\ \E i \in 1..Len(Out.variants) :
       /\ NonDoc(Processed[i].attrs) # Processed[i].attrs
       /\ \E j \in 1..Len(Processed[i].fields) :
            /\ ContextBound(Processed[i].fields[j])
            /\ Out.variants[i].fields[j].ty # Processed[i].fields[j].ty
            /\ NonDoc(Processed[i].fields[j].attrs) # <<>>

\* C10: the variants of a declaration expand returns are the variants of the
\* input that are not the placeholder, in their order, each with as many
\* fields as in the input: a field whose type is not context-bound has its
\* type unchanged, a field whose type is context-bound has for type one of the
\* generics of the declaration.
C10_VariantsAndFieldsInPlace ==
  Succeeded =>
    /\ Len(Out.variants) = Len(NonSentinel(In.variants))
    /\ \A i \in 1..Len(Out.variants) :
         LET v == NonSentinel(In.variants)[i]
             o == Out.variants[i]
         IN /\ o.ident = VariantName(config, v)
            /\ Len(o.fields) = Len(v.fields)
            /\ \A j \in 1..Len(v.fields) :
                 IF ContextBound(v.fields[j])
                   THEN \E g \in 1..Len(Out.generics) :
                          o.fields[j].ty = TypeOfIdent(Out.generics[g])
                 ELSE o.fields[j].ty = v.fields[j].ty

=============================================================================
